---------------------------- MODULE Spec2Model ----------------------------
(***************************************************************************)
(* A model of the SaaS API of src/main.py: registration and login with     *)
(* token issuance, the token-protected routes, the blog listing and the    *)
(* contact intake, over a document store.                                  *)
(*                                                                         *)
(* A request is a process: a handler that reads the store and later writes *)
(* it (register, create_post) is two steps, so that other requests may run *)
(* between its read and its write, as the worker threads of the server     *)
(* allow.  A handler with a single store operation is one step.  The step  *)
(* that ends a handler sends its response and frees the worker.            *)
(*                                                                         *)
(* Optional values are sequences of length at most one (<<>> is None).     *)
(* Emails are the values after schema validation.                          *)
(***************************************************************************)
EXTENDS Integers, Sequences, FiniteSets, TLC

VARIABLES
    users,      \* the "user" collection, in insertion order
    posts,      \* the "blogpost" collection, in insertion order
    contacts,   \* the "contactmessage" collection, in insertion order
    now,        \* the true time, in seconds since the epoch (UTC)
    utcoffset,  \* the UTC offset of the server's local time zone, in seconds
    req,        \* the request each worker is handling (after: history, it
                \* began when a Register for its email had returned a token)
    last,       \* the response sent last, with the request it answers
    registered, \* history: the <<email, password>> whose Register returned a token
    wallet      \* history: the token the client last received, and how it got it

vars == <<users, posts, contacts, now, utcoffset, req, last, registered, wallet>>

---------------------------------------------------------------------------
(* Bounds of the model. *)

NumWorkers == 2      \* concurrent requests
MaxPosts == 22       \* blog posts in the store
MaxDrafts == 1       \* of which drafts
MaxContacts == 1     \* contact messages in the store
MaxTitleLen == 4     \* characters of a title
MaxLifetimes == 1    \* steps of the clock by a token's lifetime
MaxSeconds == 1      \* steps of the clock by a second, between those

Workers == 1..NumWorkers

Emails == {"a@x.com", "b@x.com"}
Passwords == {"pw", "pw2"}
Names == {"Ann", "Bob"}
Salts == {"s1", "s2"}
UtcOffsets == {-28800, 0, 28800}

---------------------------------------------------------------------------
(* Configuration: src/main.py lines 14-16. *)

SECRET_KEY == "devsecret-change-me"
ALGORITHM == "HS256"
ACCESS_TOKEN_EXPIRE_MINUTES == 60 * 24 * 7

OtherKey == "not-the-server-key"

---------------------------------------------------------------------------
(* The document store adapter (database.py, not among the sources): a       *)
(* collection is the sequence of its documents in insertion order.         *)

\* create(collection, doc): the collection with doc added.
create_document(collection, doc) == Append(collection, doc)

Take(s, n) == IF Len(s) <= n THEN s ELSE SubSeq(s, 1, n)

\* query(collection, filter, limit): the first `limit` documents whose
\* field `key` equals `val`.
get_documents(collection, key, val, limit) ==
    LET match(d) == d[key] = val
    IN  Take(SelectSeq(collection, match), limit)

---------------------------------------------------------------------------
(* Passwords: passlib's bcrypt context.  A hash carries its salt; the      *)
(* digest is a one-way function of salt and password, modelled as their    *)
(* pair, which is read only by verify.                                     *)

BcryptDigest(salt, password) == <<"bcrypt", salt, password>>

\* get_password_hash: the hash under the salt it draws.
get_password_hash(password, salt) ==
    [scheme |-> "bcrypt", salt |-> salt, digest |-> BcryptDigest(salt, password)]

verify_password(plain_password, hashed_password) ==
    hashed_password.digest = BcryptDigest(hashed_password.salt, plain_password)

---------------------------------------------------------------------------
(* Tokens: python-jose's HS256 JWTs.  A token is a payload and a signature *)
(* over it; the signature is a one-way function of key and payload,        *)
(* modelled as their pair, which is read only by jwt_decode.               *)

HMAC(key, payload) == [key |-> key, msg |-> payload]

jwt_encode(payload, key, algorithm) ==
    [wellformed |-> TRUE, alg |-> algorithm, payload |-> payload,
     sig |-> HMAC(key, payload)]

\* jwt.decode: the payload, unless the token does not parse, its algorithm
\* is not among `algorithms`, its signature is not the key's signature of
\* its payload, or its exp is before the current time t (each a JWTError).
jwt_decode(token, key, algorithms, t) ==
    IF  /\ token.wellformed
        /\ token.alg \in algorithms
        /\ token.sig = HMAC(key, token.payload)
        /\ ~(token.payload.exp < t)
    THEN [ok |-> TRUE, payload |-> token.payload]
    ELSE [ok |-> FALSE, payload |-> token.payload]

\* datetime.utcnow().timestamp(): utcnow() is the UTC wall clock without a
\* zone, and timestamp() reads a zoneless datetime as local time.
utcnow_timestamp == now - utcoffset

\* The payload is not copied from data: the subject is lost.
create_access_token_without_data(data) ==
    LET to_encode == [sub |-> <<>>,
                      exp |-> utcnow_timestamp + ACCESS_TOKEN_EXPIRE_MINUTES * 60]
    IN  jwt_encode(to_encode, SECRET_KEY, ALGORITHM)

create_access_token(data) ==
    LET to_encode == [sub |-> data.sub,
                      exp |-> utcnow_timestamp + ACCESS_TOKEN_EXPIRE_MINUTES * 60]
    IN  jwt_encode(to_encode, SECRET_KEY, ALGORITHM)

\* The filter names another field.
get_user_by_email_by_name(email) ==
    get_documents(users, "name", email, 1)

get_user_by_email(email) ==
    get_documents(users, "email", email, 1)

\* The subject is not looked up: any subject of a valid token is a user.
get_current_user_without_lookup(bearer) ==
    LET refused(detail) == [ok |-> FALSE, status |-> 401, detail |-> detail, user |-> <<>>]
        credentials_exception == refused("Could not validate credentials")
    IN  IF bearer = <<>> THEN refused("Not authenticated")
        ELSE LET decoded == jwt_decode(bearer[1], SECRET_KEY, {ALGORITHM}, now)
             IN  IF ~decoded.ok THEN credentials_exception
                 ELSE IF decoded.payload.sub = <<>> THEN credentials_exception
                 ELSE [ok |-> TRUE, status |-> 200, detail |-> "",
                       user |-> get_user_by_email(decoded.payload.sub[1])]

\* get_current_user: the user of a bearer token (an optional token), or the
\* 401 it raises.  A request without a bearer token is refused by
\* oauth2_scheme before the function body runs.
get_current_user(bearer) ==
    LET refused(detail) == [ok |-> FALSE, status |-> 401, detail |-> detail, user |-> <<>>]
        credentials_exception == refused("Could not validate credentials")
    IN  IF bearer = <<>> THEN refused("Not authenticated")
        ELSE LET decoded == jwt_decode(bearer[1], SECRET_KEY, {ALGORITHM}, now)
             IN  IF ~decoded.ok THEN credentials_exception
                 ELSE IF decoded.payload.sub = <<>> THEN credentials_exception
                 ELSE LET user == get_user_by_email(decoded.payload.sub[1])
                      IN  IF user = <<>> THEN credentials_exception
                          ELSE [ok |-> TRUE, status |-> 200, detail |-> "", user |-> user]

---------------------------------------------------------------------------
(* Requests and responses. *)

\* A worker with no request.
Idle ==
    [kind |-> "idle", email |-> "", password |-> "", bearer |-> <<>>,
     pending |-> <<>>, writes |-> 0, after |-> FALSE]

\* No response sent yet.
NoResponse ==
    [kind |-> "none", email |-> "", password |-> "", bearer |-> <<>>,
     status |-> 0, detail |-> "", access_token |-> <<>>, body |-> <<>>,
     listing |-> <<>>, writes |-> 0, after |-> FALSE, at |-> 0]

\* The response to request r, sent now: NoResponse's fields, those r has
\* taken from r, those `fields` has taken from `fields`.
Response(r, fields) ==
    [x \in DOMAIN NoResponse |->
        IF x \in DOMAIN fields THEN fields[x]
        ELSE IF x = "at" THEN now
        ELSE IF x \in DOMAIN r THEN r[x] ELSE NoResponse[x]]

\* Worker p sends the response to r and is free again.
Respond(p, r, fields) ==
    /\ last' = Response(r, fields)
    /\ req' = [req EXCEPT ![p] = Idle]

HTTPException(status_code, detail) ==
    [status |-> status_code, detail |-> detail]

\* History: a Register for this email has returned a token.
RegisteredEmail(email) == \E x \in registered : x[1] = email

---------------------------------------------------------------------------
(* POST /auth/register: src/main.py lines 118-127. *)

\* The lookup of the email, and the hashing of the password under `salt`.
register_lookup(p, user, salt) ==
    /\ req[p].kind = "idle"
    /\ LET r == [req[p] EXCEPT !.kind = "register", !.email = user.email,
                               !.password = user.password_hash,
                               !.after = RegisteredEmail(user.email)]
       IN  IF get_user_by_email(user.email) # <<>>
           THEN Respond(p, r, HTTPException(400, "Email already registered"))
           ELSE LET hashed == get_password_hash(user.password_hash, salt)
                    data == [user EXCEPT !.password_hash = hashed]
                IN  /\ req' = [req EXCEPT ![p] = [r EXCEPT !.pending = <<data>>]]
                    /\ UNCHANGED last
    /\ UNCHANGED <<users, posts, contacts, now, utcoffset, registered, wallet>>

\* The insert of the record, the token and the response.
register_insert(p) ==
    /\ req[p].kind = "register"
    /\ users' = create_document(users, req[p].pending[1])
    /\ LET token == create_access_token([sub |-> <<req[p].email>>])
       IN  Respond(p, req[p], [status |-> 200, access_token |-> <<token>>,
                               writes |-> req[p].writes + 1])
    /\ registered' = registered \cup {<<req[p].email, req[p].password>>}
    /\ UNCHANGED <<posts, contacts, now, utcoffset, wallet>>

---------------------------------------------------------------------------
(* POST /auth/login: src/main.py lines 130-136. *)

login(p, payload) ==
    /\ req[p].kind = "idle"
    /\ LET r == [req[p] EXCEPT !.kind = "login", !.email = payload.email,
                               !.password = payload.password]
           user == get_user_by_email(payload.email)
       IN  IF user = <<>> \/ ~verify_password(payload.password, user[1].password_hash)
           THEN Respond(p, r, HTTPException(400, "Incorrect email or password"))
           ELSE LET token == create_access_token([sub |-> <<user[1].email>>])
                IN  Respond(p, r, [status |-> 200, access_token |-> <<token>>])
    /\ UNCHANGED <<users, posts, contacts, now, utcoffset, registered, wallet>>

---------------------------------------------------------------------------
(* GET /auth/me: src/main.py lines 139-142. *)

\* The record as stored.
me_user_unfiltered(current_user) == current_user

\* The record without its password_hash field.
me_user(current_user) ==
    [k \in DOMAIN current_user \ {"password_hash"} |-> current_user[k]]

me(p, bearer) ==
    /\ req[p].kind = "idle"
    /\ LET r == [req[p] EXCEPT !.kind = "me", !.bearer = bearer]
           auth == get_current_user(bearer)
       IN  IF ~auth.ok
           THEN Respond(p, r, HTTPException(auth.status, auth.detail))
           ELSE Respond(p, r, [status |-> 200, body |-> <<me_user(auth.user[1])>>])
    /\ UNCHANGED <<users, posts, contacts, now, utcoffset, registered, wallet>>

---------------------------------------------------------------------------
(* Strings are sequences of characters. *)

Whitespace == {" ", "\t"}

lower_char(c) == IF c = "A" THEN "a" ELSE IF c = "B" THEN "b" ELSE c

\* str.lower()
str_lower(s) == [i \in 1..Len(s) |-> lower_char(s[i])]

\* str.lstrip(), str.rstrip(), str.strip(): without the whitespace at the
\* ends.
RECURSIVE str_lstrip(_)
str_lstrip(s) ==
    IF s # <<>> /\ Head(s) \in Whitespace THEN str_lstrip(Tail(s)) ELSE s

RECURSIVE str_rstrip(_)
str_rstrip(s) ==
    IF s # <<>> /\ s[Len(s)] \in Whitespace
    THEN str_rstrip(SubSeq(s, 1, Len(s) - 1)) ELSE s

str_strip(s) == str_rstrip(str_lstrip(s))

\* str.replace(old, new), old and new one character each
str_replace(s, old, new) == [i \in 1..Len(s) |-> IF s[i] = old THEN new ELSE s[i]]

---------------------------------------------------------------------------
(* GET /blog and POST /blog: src/main.py lines 148-181. *)

LIST_LIMIT == 20

\* The query without its limit.
list_posts_docs_unlimited == get_documents(posts, "status", "published", Len(posts))

list_posts_docs == get_documents(posts, "status", "published", LIST_LIMIT)

list_posts(p) ==
    /\ req[p].kind = "idle"
    /\ LET r == [req[p] EXCEPT !.kind = "list_posts"]
       IN  Respond(p, r, [status |-> 200, listing |-> list_posts_docs])
    /\ UNCHANGED <<users, posts, contacts, now, utcoffset, registered, wallet>>

\* Without strip().
slugify_without_strip(title) == str_replace(str_lower(title), " ", "-")

slugify(title) == str_replace(str_strip(str_lower(title)), " ", "-")

\* The document create_post builds from its payload.
post_doc(payload) ==
    [title |-> payload.title,
     slug |-> slugify(payload.title),
     excerpt |-> payload.excerpt,
     content |-> payload.content,
     author_name |-> payload.author_name,
     tags |-> payload.tags,
     status |-> payload.status,
     published_at |-> IF payload.status = "published" THEN <<now>> ELSE <<>>]

\* The dependency get_current_user, which runs before the handler's body.
create_post_auth(p, bearer, payload) ==
    /\ req[p].kind = "idle"
    /\ LET r == [req[p] EXCEPT !.kind = "create_post", !.bearer = bearer]
           auth == get_current_user(bearer)
       IN  IF ~auth.ok
           THEN Respond(p, r, HTTPException(auth.status, auth.detail))
           ELSE /\ req' = [req EXCEPT ![p] = [r EXCEPT !.pending = <<payload>>]]
                /\ UNCHANGED last
    /\ UNCHANGED <<users, posts, contacts, now, utcoffset, registered, wallet>>

\* The handler's body: the document, its insert and the response.
create_post_insert(p) ==
    /\ req[p].kind = "create_post"
    /\ LET doc == post_doc(req[p].pending[1])
       IN  /\ posts' = create_document(posts, doc)
           /\ Respond(p, req[p], [status |-> 200, body |-> <<doc>>,
                                  writes |-> req[p].writes + 1])
    /\ UNCHANGED <<users, contacts, now, utcoffset, registered, wallet>>

---------------------------------------------------------------------------
(* POST /contact: src/main.py lines 187-190. *)

submit_contact(p, msg) ==
    /\ req[p].kind = "idle"
    /\ contacts' = create_document(contacts, msg)
    /\ LET r == [req[p] EXCEPT !.kind = "submit_contact", !.email = msg.email]
       IN  Respond(p, r, [status |-> 200, writes |-> r.writes + 1])
    /\ UNCHANGED <<users, posts, now, utcoffset, registered, wallet>>

---------------------------------------------------------------------------
(* The environment: time passes, and the client keeps the token of the     *)
(* response it has just read.                                              *)

tick(d) ==
    /\ now' = now + d
    /\ UNCHANGED <<users, posts, contacts, utcoffset, req, last, registered, wallet>>

keep_token ==
    /\ last.access_token # <<>>
    /\ wallet' = <<[token |-> last.access_token[1], email |-> last.email,
                    at |-> last.at]>>
    /\ wallet' # wallet
    /\ UNCHANGED <<users, posts, contacts, now, utcoffset, req, last, registered>>

---------------------------------------------------------------------------
(* Inputs. *)

\* The User payloads with the given names, emails and passwords.
UserInputs(names, emails, passwords) ==
    [name : names, email : emails, password_hash : passwords,
     avatar_url : {<<>>}, is_active : {TRUE}]

LoginInputs == [email : Emails, password : Passwords]

\* Tokens that this server did not issue: one that does not parse, one
\* signed with another key, one whose payload was changed after signing,
\* and, from a holder of the key, one without a subject, one per email that
\* does not expire within the model's time, and one that expired before it.
FarFuture == (MaxLifetimes + 2) * ACCESS_TOKEN_EXPIRE_MINUTES * 60

Malformed ==
    [wellformed |-> FALSE, alg |-> "", payload |-> [sub |-> <<>>, exp |-> 0],
     sig |-> HMAC("", [sub |-> <<>>, exp |-> 0])]

ForeignTokens ==
    {Malformed}
    \cup {jwt_encode([sub |-> <<e>>, exp |-> FarFuture], OtherKey, ALGORITHM) : e \in Emails}
    \cup {[jwt_encode([sub |-> <<"a@x.com">>, exp |-> FarFuture], SECRET_KEY, ALGORITHM)
            EXCEPT !.payload.sub = <<"b@x.com">>]}
    \cup {jwt_encode([sub |-> <<>>, exp |-> FarFuture], SECRET_KEY, ALGORITHM)}
    \cup {jwt_encode([sub |-> <<e>>, exp |-> FarFuture], SECRET_KEY, ALGORITHM) : e \in Emails}
    \cup {jwt_encode([sub |-> <<e>>, exp |-> 0 - 1], SECRET_KEY, ALGORITHM) : e \in Emails}

\* What a request may carry as its bearer token: nothing, a token of
\* another origin, or the token the client keeps.
BearerInputs(foreign) ==
    {<<>>} \cup {<<t>> : t \in foreign}
           \cup {<<wallet[i].token>> : i \in 1..Len(wallet)}

Chars == {"A", "b", " ", "\t"}

RECURSIVE Strings(_)
Strings(n) ==
    IF n = 0 THEN {<<>>}
    ELSE LET shorter == Strings(n - 1)
         IN  shorter \cup {Append(s, c) : s \in {x \in shorter : Len(x) = n - 1}, c \in Chars}

\* The BlogCreate payloads with the given titles and statuses.
BlogInputs(titles, statuses) ==
    [title : titles, excerpt : {<<>>}, content : {"text"},
     author_name : {"Ann"}, tags : {<<>>}, status : statuses]

SampleTitle == <<"A", " ", "b">>

ContactInputs ==
    [name : {"Ann"}, email : {"a@x.com"}, subject : {"hi"}, message : {"text"}]

Drafts == Len(SelectSeq(posts, LAMBDA d : d.status = "draft"))
         + Cardinality({p \in Workers :
                req[p].kind = "create_post" /\ req[p].pending[1].status = "draft"})

PostsInFlight == Cardinality({p \in Workers : req[p].kind = "create_post"})

---------------------------------------------------------------------------
(* Registration and login by concurrent requests. *)

Init ==
    /\ users = <<>>
    /\ posts = <<>>
    /\ contacts = <<>>
    /\ now = 0
    /\ utcoffset = 0
    /\ req = [p \in Workers |-> Idle]
    /\ last = NoResponse
    /\ registered = {}
    /\ wallet = <<>>

Next ==
    \/ \E p \in Workers, user \in UserInputs({"Ann"}, Emails, Passwords) :
            register_lookup(p, user, "s1")
    \/ \E p \in Workers : register_insert(p)
    \/ \E p \in Workers, payload \in LoginInputs : login(p, payload)

Spec == Init /\ [][Next]_vars

---------------------------------------------------------------------------
(* One client's session over time: it registers, logs in, keeps a token    *)
(* and presents it later.  The server's time zone is any of UtcOffsets.    *)

SessionInit ==
    /\ users = <<>>
    /\ posts = <<>>
    /\ contacts = <<>>
    /\ now = 0
    /\ utcoffset \in UtcOffsets
    /\ req = [p \in Workers |-> Idle]
    /\ last = NoResponse
    /\ registered = {}
    /\ wallet = <<>>

SessionNext ==
    \/ \E user \in UserInputs(Names, Emails, {"pw"}) :
            register_lookup(1, user, "s1")
    \/ register_insert(1)
    \/ \E payload \in LoginInputs : login(1, payload)
    \/ \E bearer \in BearerInputs({Malformed}) : me(1, bearer)
    \/ keep_token
    \/ /\ now % (ACCESS_TOKEN_EXPIRE_MINUTES * 60) < MaxSeconds
       /\ tick(1)
    \/ /\ now \div (ACCESS_TOKEN_EXPIRE_MINUTES * 60) < MaxLifetimes
       /\ tick(ACCESS_TOKEN_EXPIRE_MINUTES * 60)

SessionSpec == SessionInit /\ [][SessionNext]_vars

---------------------------------------------------------------------------
(* The blog: one registered author, and requests with any bearer token.    *)

BlogNext ==
    \/ \E user \in UserInputs({"Ann"}, {"a@x.com"}, {"pw"}) :
            register_lookup(1, user, "s1")
    \/ register_insert(1)
    \/ \E bearer \in BearerInputs(ForeignTokens), status \in {"published", "draft"} :
            /\ Len(posts) + PostsInFlight < MaxPosts
            /\ status = "draft" => Drafts < MaxDrafts
            /\ \E payload \in BlogInputs({SampleTitle}, {status}) :
                    create_post_auth(1, bearer, payload)
    \/ create_post_insert(1)
    \/ list_posts(1)
    \/ \E msg \in ContactInputs : Len(contacts) < MaxContacts /\ submit_contact(1, msg)

BlogSpec == Init /\ [][BlogNext]_vars

---------------------------------------------------------------------------
(* The slug of a first post, for every title of at most MaxTitleLen        *)
(* characters.                                                             *)

SlugNext ==
    \/ \E user \in UserInputs({"Ann"}, {"a@x.com"}, {"pw"}) :
            register_lookup(1, user, "s1")
    \/ register_insert(1)
    \/ \E payload \in BlogInputs(Strings(MaxTitleLen), {"published"}) :
            /\ posts = <<>>
            /\ create_post_auth(1, last.access_token, payload)
    \/ create_post_insert(1)

SlugSpec == Init /\ [][SlugNext]_vars

---------------------------------------------------------------------------
(* Properties.  `last` is the response of the handler that ended last, and *)
(* no store changes without a response, so a property of `last` and the    *)
(* stores is a property of that handler's result in the state it left.     *)

ExpireSeconds == ACCESS_TOKEN_EXPIRE_MINUTES * 60

WithEmail(email) == {i \in 1..Len(users) : users[i].email = email}

\* C1: in every reachable state, also under interleavings of concurrent
\* Register requests, the user collection holds at most one record per
\* email.
EmailIsUnique ==
    \A i, j \in 1..Len(users) : users[i].email = users[j].email => i = j

\* C2: a Register that begins when a Register for the same email has
\* returned a token never reaches its insert, and is answered 400 "Email
\* already registered", without a token and without a write.
RegisterAfterSuccessConflicts ==
    /\ \A p \in Workers : req[p].kind = "register" => ~req[p].after
    /\ (last.kind = "register" /\ last.after) =>
            /\ last.status = 400
            /\ last.detail = "Email already registered"
            /\ last.access_token = <<>>
            /\ last.writes = 0

\* C2's case: a Register with another password is refused for an email
\* that a Register has returned a token for.
RegisterAfterSuccessRefused ==
    /\ last.kind = "register"
    /\ last.after
    /\ last.status = 400
    /\ <<last.email, last.password>> \notin registered
    /\ WithEmail(last.email) # {}

\* C3: Login succeeds exactly when some user record has the email and a
\* secret the password verifies against, and every failure is the same 400
\* "Incorrect email or password".
LoginSucceedsIffCredentialsMatch ==
    last.kind = "login" =>
        /\ last.status = 200 <=>
                \E i \in WithEmail(last.email) :
                    verify_password(last.password, users[i].password_hash)
        /\ last.status = 200 => last.access_token # <<>>
        /\ last.status # 200 =>
                /\ last.status = 400
                /\ last.detail = "Incorrect email or password"
                /\ last.access_token = <<>>

\* Decoded with the server's key at the current time, the token has the
\* subject `email`, if the current time is not after its exp.
ResolvesTo(token, email) ==
    token.payload.exp >= now =>
        /\ jwt_decode(token, SECRET_KEY, {ALGORITHM}, now).ok
        /\ jwt_decode(token, SECRET_KEY, {ALGORITHM}, now).payload.sub = <<email>>

\* C4: the token of a successful Register or Login for email e decodes,
\* with the server's key and before its expiry, to subject e, and
\* /auth/me with it answers with the record of e.
TokenResolvesToRequestedEmail ==
    /\ (last.kind \in {"register", "login"} /\ last.status = 200) =>
            /\ last.access_token # <<>>
            /\ ResolvesTo(last.access_token[1], last.email)
    /\ \A i \in 1..Len(wallet) :
            /\ ResolvesTo(wallet[i].token, wallet[i].email)
            /\ (/\ last.kind = "me"
                /\ last.bearer = <<wallet[i].token>>
                /\ wallet[i].token.payload.exp >= last.at) =>
                    /\ last.status = 200
                    /\ last.body[1].email = wallet[i].email

\* C4's case: a kept token was presented after the instant it was issued
\* at, and resolved.
KeptTokenResolvedLater ==
    /\ wallet # <<>>
    /\ last.kind = "me"
    /\ last.bearer = <<wallet[1].token>>
    /\ last.at > wallet[1].at
    /\ last.status = 200

\* C5: a token expires 7 days after it was issued: presented at any time
\* after that, it is refused with 401.
TokenRefusedSevenDaysAfterIssue ==
    \A i \in 1..Len(wallet) :
        (/\ last.kind = "me"
         /\ last.bearer = <<wallet[i].token>>
         /\ last.at > wallet[i].at + ExpireSeconds) =>
            last.status = 401

\* C6: a successful /auth/me answers with a stored record whose email is
\* the token's subject, without its password_hash field and with every
\* other field as stored; no /auth/me response has a password_hash field.
MeReturnsRecordWithoutSecret ==
    last.kind = "me" =>
        /\ last.status # 200 => last.body = <<>>
        /\ last.status = 200 =>
                /\ Len(last.body) = 1
                /\ "password_hash" \notin DOMAIN last.body[1]
                /\ \E i \in WithEmail(last.bearer[1].payload.sub[1]) :
                        /\ DOMAIN last.body[1] = DOMAIN users[i] \ {"password_hash"}
                        /\ \A k \in DOMAIN last.body[1] : last.body[1][k] = users[i][k]

\* C6's case: /auth/me answered for the second of two stored users.
MeAnsweredForSecondUser ==
    /\ last.kind = "me"
    /\ last.status = 200
    /\ Len(users) = 2
    /\ last.body[1].email = users[2].email

\* C7: a listing holds only posts whose status is "published", and at most
\* 20 of them.
ListingIsPublishedAndCapped ==
    last.kind = "list_posts" =>
        /\ \A i \in 1..Len(last.listing) : last.listing[i].status = "published"
        /\ Len(last.listing) <= 20

\* C7's case: a listing of 20 posts of a store that holds a draft and more
\* than 20 published posts.
ListingCut ==
    /\ last.kind = "list_posts"
    /\ Len(last.listing) = 20
    /\ Len(SelectSeq(posts, LAMBDA d : d.status = "published")) > 20
    /\ Len(SelectSeq(posts, LAMBDA d : d.status = "draft")) > 0

Created == last.kind = "create_post" /\ last.status = 200

\* C8 as stated: the slug of a created post is its title lowercased with
\* each space replaced by a hyphen, and nothing else changed.
SlugIsTitleLoweredAndHyphenated ==
    Created =>
        LET title == last.body[1].title
        IN  last.body[1].slug =
                [i \in 1..Len(title) |->
                    IF title[i] = " " THEN "-" ELSE lower_char(title[i])]

\* C8 as amended: the slug is the title from its first to its last
\* character that is not whitespace (empty if there is none), lowercased,
\* with each space replaced by a hyphen.
SlugIsTrimmedTitleLoweredAndHyphenated ==
    Created =>
        LET title == last.body[1].title
            slug == last.body[1].slug
            inked == {i \in 1..Len(title) : title[i] \notin Whitespace}
        IN  IF inked = {} THEN slug = <<>>
            ELSE LET lo == CHOOSE i \in inked : \A j \in inked : i <= j
                     hi == CHOOSE i \in inked : \A j \in inked : j <= i
                 IN  /\ Len(slug) = hi - lo + 1
                     /\ \A k \in 1..Len(slug) :
                            slug[k] = IF title[lo + k - 1] = " " THEN "-"
                                      ELSE lower_char(title[lo + k - 1])

\* C8's case: a post whose title begins with whitespace and has a space
\* between two letters, one of them a capital.
SlugOfPaddedTitle ==
    /\ Created
    /\ last.body[1].title = <<" ", "A", " ", "b">>
    /\ last.body[1].slug = <<"a", "-", "b">>

\* Authenticate succeeds for this bearer token in the current state: it is
\* there, parses, is signed with the server's key, has not expired, has a
\* subject, and the subject is the email of a user.
Authenticates(bearer) ==
    /\ bearer # <<>>
    /\ bearer[1].wellformed
    /\ bearer[1].alg = "HS256"
    /\ bearer[1].sig = [key |-> SECRET_KEY, msg |-> bearer[1].payload]
    /\ bearer[1].payload.exp >= now
    /\ bearer[1].payload.sub # <<>>
    /\ WithEmail(bearer[1].payload.sub[1]) # {}

PostFrame ==
    /\ \A p \in Workers :
            (req[p].kind = "idle" /\ req'[p].kind = "create_post") =>
                Authenticates(req'[p].bearer)
    /\ (last' # last /\ last'.kind = "create_post" /\ ~Authenticates(last'.bearer)) =>
            /\ last'.status = 401
            /\ last'.writes = 0
            /\ UNCHANGED <<users, posts, contacts>>
    /\ posts' # posts =>
            /\ last'.kind = "create_post"
            /\ last'.status = 200
            /\ Authenticates(last'.bearer)
            /\ posts' = Append(posts, last'.body[1])
            /\ UNCHANGED <<users, contacts>>
    /\ last'.writes <= 1
    /\ \A p \in Workers : req'[p].writes = 0
    /\ Len(users') + Len(posts') + Len(contacts')
            <= Len(users) + Len(posts) + Len(contacts) + 1

\* C9: POST /blog reaches its insert only with a bearer token that
\* authenticates; with any other it is answered 401 and no collection
\* changes; a blogpost is added only by an authenticated POST /blog, and no
\* request adds more than one document.
PostsWrittenOnlyWhenAuthenticated == [][PostFrame]_vars

\* C9's case: a POST /blog with a validly signed token whose subject is no
\* user was answered 401, in a store that holds a post.
PostRefusedForUnknownSubject ==
    /\ last.kind = "create_post"
    /\ last.status = 401
    /\ last.bearer # <<>>
    /\ last.bearer[1].wellformed
    /\ last.bearer[1].alg = "HS256"
    /\ last.bearer[1].sig = [key |-> SECRET_KEY, msg |-> last.bearer[1].payload]
    /\ last.bearer[1].payload.exp >= now
    /\ last.bearer[1].payload.sub # <<>>
    /\ posts # <<>>

\* C10: a Login with an email and password whose Register returned a
\* token succeeds, with a token for that email.
RegisteredCanLogin ==
    (last.kind = "login" /\ <<last.email, last.password>> \in registered) =>
        /\ last.status = 200
        /\ last.access_token # <<>>
        /\ last.access_token[1].payload.sub = <<last.email>>

=============================================================================
